---------------------------- MODULE Spec2Model ----------------------------
(***************************************************************************)
(* Model of resize (src/src/main.rs): the dimension calculators            *)
(* shrink_dimensions / enlarge_dimensions with their f64 arithmetic, and   *)
(* the sequential image pipeline of main.                                  *)
(***************************************************************************)
EXTENDS Integers, Sequences, FiniteSets

(***************************************************************************)
(* Bounds of the model.                                                    *)
(***************************************************************************)
\* widths, heights and sizes handed to the calculators range over 1..MaxDim
MaxDim == 26
\* at most MaxImages image arguments on the command line
MaxImages == 2
\* image files on disk are 1..MaxFileDim pixels wide and high, and --size is
\* in 1..MaxFileDim
MaxFileDim == 2

VARIABLES
    \* one call of a dimension calculator, and a second call on its result
    width, height, size, calc, result, again,
    \* one run of main
    argv, fs, opt, idx, pc, pending, log

dimVars == <<width, height, size, calc, result, again>>
runVars == <<argv, fs, opt, idx, pc, pending, log>>
vars == <<width, height, size, calc, result, again,
          argv, fs, opt, idx, pc, pending, log>>

(***************************************************************************)
(* IEEE-754 binary64 arithmetic, as used by                                *)
(*   (size as f64 / width as f64 * height as f64).floor() as u32           *)
(* A finite positive f64 is sig * 2^exp with a 53-bit significand          *)
(* 2^52 <= sig < 2^53.  The significand is kept as five digits, most       *)
(* significant first: a leading digit of 5 bits (16..31) followed by four  *)
(* digits of 12 bits, because the model's integers are 32 bits wide.       *)
(* Every operation rounds to nearest, ties to even, as the hardware does.  *)
(***************************************************************************)
\* bits of one low digit of the significand, and its base
DigitBits == 12
Base == 4096
\* number of low digits: 5 + 4 * 12 = 53 bits
LowDigits == 4
\* exponent of the unit in the last place of a significand in [1, 2)
UlpExp == -52

RECURSIVE Pow2(_)
Pow2(n) == IF n = 0 THEN 1 ELSE 2 * Pow2(n - 1)

\* the least k with a * 2^k >= b
RECURSIVE Doublings(_, _)
Doublings(a, b) == IF a >= b THEN 0 ELSE 1 + Doublings(2 * a, b)

\* the least k with v div 2^k < 32: the bits by which a leading digit overflows
RECURSIVE Halvings(_)
Halvings(v) == IF v < 32 THEN 0 ELSE 1 + Halvings(v \div 2)

\* n further base-4096 digits of the quotient r / den (r < den), and the remainder
RECURSIVE DivDigits(_, _, _)
DivDigits(r, den, n) ==
    IF n = 0 THEN [q |-> <<>>, r |-> r]
    ELSE LET rest == DivDigits((r * Base) % den, den, n - 1)
         IN  [q |-> <<(r * Base) \div den>> \o rest.q, r |-> rest.r]

\* significand + 1 ulp; a carry out of the leading digit leaves it at 32
RECURSIVE IncSig(_)
IncSig(sig) ==
    LET n == Len(sig) IN
    IF n = 1 THEN <<sig[1] + 1>>
    ELSE IF sig[n] + 1 < Base THEN [sig EXCEPT ![n] = sig[n] + 1]
    ELSE IncSig(SubSeq(sig, 1, n - 1)) \o <<0>>

\* round to nearest even: `up` when the discarded part is above half an ulp,
\* `tie` when it is exactly half an ulp
RoundF64(sig, exp, up, tie) ==
    IF up \/ (tie /\ sig[Len(sig)] % 2 = 1)
    THEN LET s == IncSig(sig) IN
         IF s[1] = 32 THEN [sig |-> <<16>> \o SubSeq(s, 2, Len(s)), exp |-> exp + 1]
         ELSE [sig |-> s, exp |-> exp]
    ELSE [sig |-> sig, exp |-> exp]

\* a as f64 / b as f64 for u32 a, b >= 1 (u32 -> f64 is exact): the exact
\* quotient a / b correctly rounded
F64DivU32(a, b) ==
    LET p   == IF a >= b THEN Doublings(b, a + 1) - 1 ELSE 0
        q   == IF a >= b THEN 0 ELSE Doublings(a, b)
        num == a * Pow2(q)
        den == b * Pow2(p)
        d1  == (num * 16) \div den
        low == DivDigits((num * 16) % den, den, LowDigits)
    IN  RoundF64(<<d1>> \o low.q, UlpExp + p - q,
                 2 * low.r > den, 2 * low.r = den)

\* digits of sig * c, least significant digit first carried upwards; the leading
\* digit holds whatever is left and may exceed 31
RECURSIVE MulDigits(_, _, _)
MulDigits(sig, c, carry) ==
    LET n == Len(sig)
        t == sig[n] * c + carry
    IN  IF n = 1 THEN <<t>>
        ELSE MulDigits(SubSeq(sig, 1, n - 1), c, t \div Base) \o <<t % Base>>

\* x * (c as f64) for u32 c >= 1: the exact product correctly rounded
F64MulU32(x, c) ==
    LET prod == MulDigits(x.sig, c, 0)
        j    == Halvings(prod[1])
        w    == Pow2(j)
        n    == Len(prod)
        kept == [i \in 1..n |->
                    IF i = 1 THEN prod[1] \div w
                    ELSE ((prod[i - 1] % w) * Base + prod[i]) \div w]
        lost == prod[n] % w
    IN  RoundF64(kept, x.exp + j,
                 j > 0 /\ 2 * lost > w, j > 0 /\ 2 * lost = w)

\* the leading `bits` bits of the significand as an integer
RECURSIVE LeadingBits(_, _, _, _)
LeadingBits(sig, i, bits, acc) ==
    LET dbits == IF i = 1 THEN 5 ELSE DigitBits IN
    IF bits <= 0 \/ i > Len(sig) THEN acc
    ELSE IF bits >= dbits
         THEN LeadingBits(sig, i + 1, bits - dbits, acc * Pow2(dbits) + sig[i])
         ELSE acc * Pow2(bits) + sig[i] \div Pow2(dbits - bits)

\* x.floor() as u32, for 0 < x < 2^31
FloorU32(x) ==
    LET bits == 5 + LowDigits * DigitBits + x.exp IN
    IF bits <= 0 THEN 0 ELSE LeadingBits(x.sig, 1, bits, 0)

\* (a as f64 / b as f64 * c as f64).floor() as u32
ScaleFloor(a, b, c) == FloorU32(F64MulU32(F64DivU32(a, b), c))

(***************************************************************************)
(* The dimension calculators.  Option<(u32, u32)>: None is <<>>, Some((a,  *)
(* b)) is <<a, b>>.                                                        *)
(***************************************************************************)
None == <<>>
Some(a, b) == <<a, b>>

enlarge_dimensions(w, h, s) ==
    IF w > h /\ w < s THEN Some(s, ScaleFloor(s, w, h))
    ELSE IF h < s THEN Some(ScaleFloor(s, h, w), s)
    ELSE None

\* shrink_dimensions with >= for > in the height branch
shrink_dimensions_ge(w, h, s) ==
    IF w > h /\ w > s THEN Some(s, ScaleFloor(s, w, h))
    ELSE IF h >= s THEN Some(ScaleFloor(s, h, w), s)
    ELSE None

\* shrink_dimensions without the long-dimension test of the width branch
shrink_dimensions_nolong(w, h, s) ==
    IF w > s THEN Some(s, ScaleFloor(s, w, h))
    ELSE IF h > s THEN Some(ScaleFloor(s, h, w), s)
    ELSE None

shrink_dimensions(w, h, s) ==
    IF w > h /\ w > s THEN Some(s, ScaleFloor(s, w, h))
    ELSE IF h > s THEN Some(ScaleFloor(s, h, w), s)
    ELSE None

(***************************************************************************)
(* DimSpec: the calculators as pure functions.  The inputs are drawn from  *)
(* 1..MaxDim; one calculator is applied, then applied once more to its own *)
(* result with the same size (the tool run again on the file it wrote).    *)
(***************************************************************************)
Dims == 1..MaxDim

\* the run of main is not started in DimSpec
RunOff ==
    /\ argv = [up |-> FALSE, down |-> FALSE, size |-> <<>>, images |-> <<>>]
    /\ fs = <<>>
    /\ opt = <<>>
    /\ idx = 0
    /\ pc = "off"
    /\ pending = <<>>
    /\ log = <<>>

DimInit ==
    /\ width \in Dims
    /\ height \in Dims
    /\ size \in Dims
    /\ calc = "none"
    /\ result = None
    /\ again = None
    /\ RunOff

ShrinkDimensions ==
    /\ calc = "none"
    /\ calc' = "shrink"
    /\ result' = shrink_dimensions(width, height, size)
    /\ UNCHANGED <<width, height, size, again, runVars>>

EnlargeDimensions ==
    /\ calc = "none"
    /\ calc' = "enlarge"
    /\ result' = enlarge_dimensions(width, height, size)
    /\ UNCHANGED <<width, height, size, again, runVars>>

ShrinkAgain ==
    /\ calc = "shrink"
    /\ result # None
    /\ calc' = "shrink2"
    /\ again' = shrink_dimensions(result[1], result[2], size)
    /\ UNCHANGED <<width, height, size, result, runVars>>

EnlargeAgain ==
    /\ calc = "enlarge"
    /\ result # None
    /\ calc' = "enlarge2"
    /\ again' = enlarge_dimensions(result[1], result[2], size)
    /\ UNCHANGED <<width, height, size, result, runVars>>

DimNext == ShrinkDimensions \/ EnlargeDimensions \/ ShrinkAgain \/ EnlargeAgain

DimSpec == DimInit /\ [][DimNext]_vars

(***************************************************************************)
(* Spec: one run of main.  The command line and the files on disk are      *)
(* chosen at the start; the images are then processed one after another.   *)
(***************************************************************************)
Paths == {"a.png", "b.png"}

Missing == [kind |-> "missing", w |-> 0, h |-> 0]
Corrupt == [kind |-> "corrupt", w |-> 0, h |-> 0]
Image(w, h) == [kind |-> "image", w |-> w, h |-> h]

Files == {Missing, Corrupt} \cup {Image(w, h) : w \in 1..MaxFileDim, h \in 1..MaxFileDim}

ImageLists == UNION {[1..n -> Paths] : n \in 0..MaxImages}

\* -s/--size: <<n>> when present and a u32, <<>> when missing or unparsable
Argvs == [up : BOOLEAN, down : BOOLEAN,
          size : {<<>>} \cup {<<n>> : n \in 1..MaxFileDim},
          images : ImageLists]

Noop == <<>>

\* the calculators are not called in Spec except through enlarge and shrink
DimOff ==
    /\ width = 1
    /\ height = 1
    /\ size = 1
    /\ calc = "off"
    /\ result = None
    /\ again = None

Init ==
    /\ argv \in Argvs
    /\ fs \in [Paths -> Files]
    /\ opt = <<>>
    /\ idx = 0
    /\ pc = "start"
    /\ pending = Noop
    /\ log = <<>>
    /\ DimOff

\* Opt::from_args, but the operation is read off the "down" flag
FromArgsByDown ==
    /\ pc = "start"
    /\ IF (argv.up /\ argv.down) \/ argv.size = <<>>
       THEN /\ pc' = "usage"
            /\ UNCHANGED <<opt, idx>>
       ELSE /\ opt' = [size |-> argv.size[1],
                       images |-> argv.images,
                       operation |-> IF argv.down THEN "Shrink" ELSE "Enlarge"]
            /\ idx' = 1
            /\ pc' = "loop"
    /\ UNCHANGED <<argv, fs, pending, log, dimVars>>

\* Opt::from_args, and the start of main's loop.  clap exits with a usage error
\* when both flags of the group are given or when -s is missing or no u32.
FromArgs ==
    /\ pc = "start"
    /\ IF (argv.up /\ argv.down) \/ argv.size = <<>>
       THEN /\ pc' = "usage"
            /\ UNCHANGED <<opt, idx>>
       ELSE /\ opt' = [size |-> argv.size[1],
                       images |-> argv.images,
                       operation |-> IF argv.up THEN "Enlarge" ELSE "Shrink"]
            /\ idx' = 1
            /\ pc' = "loop"
    /\ UNCHANGED <<argv, fs, pending, log, dimVars>>

\* ImageLoader::open(image)?.decode()? succeeds on a decodable file
Decodes(f) == f.kind = "image"

\* the Resize value built from the calculator's answer
ResizeOf(path, dims) ==
    IF dims = None THEN Noop ELSE [path |-> path, buffer |-> dims]

\* main's arm Operation::Enlarge => enlarge(&image, opt.size)? : open and decode
\* the file, ask enlarge_dimensions, build the Resize value
Enlarge ==
    /\ pc = "loop"
    /\ idx <= Len(opt.images)
    /\ opt.operation = "Enlarge"
    /\ LET image == opt.images[idx]
           f     == fs[image]
       IN  /\ log' = Append(log, [ev |-> "read", idx |-> idx, path |-> image,
                                  fn |-> "enlarge", ok |-> Decodes(f)])
           /\ IF Decodes(f)
              THEN /\ pending' = ResizeOf(image, enlarge_dimensions(f.w, f.h, opt.size))
                   /\ pc' = "write"
              ELSE /\ pc' = "err"
                   /\ UNCHANGED pending
    /\ UNCHANGED <<argv, fs, opt, idx, dimVars>>

\* shrink(), but a file whose dimensions need no change is written back too
ShrinkRewritesAlways ==
    /\ pc = "loop"
    /\ idx <= Len(opt.images)
    /\ opt.operation = "Shrink"
    /\ LET image == opt.images[idx]
           f     == fs[image]
           dims  == shrink_dimensions(f.w, f.h, opt.size)
       IN  /\ log' = Append(log, [ev |-> "read", idx |-> idx, path |-> image,
                                  fn |-> "shrink", ok |-> Decodes(f)])
           /\ IF Decodes(f)
              THEN /\ pending' = [path |-> image,
                                  buffer |-> IF dims = None THEN <<f.w, f.h>> ELSE dims]
                   /\ pc' = "write"
              ELSE /\ pc' = "err"
                   /\ UNCHANGED pending
    /\ UNCHANGED <<argv, fs, opt, idx, dimVars>>

\* shrink(), but main drops the error of a file that does not decode and goes on
ShrinkSkipsBadFile ==
    /\ pc = "loop"
    /\ idx <= Len(opt.images)
    /\ opt.operation = "Shrink"
    /\ LET image == opt.images[idx]
           f     == fs[image]
       IN  /\ log' = Append(log, [ev |-> "read", idx |-> idx, path |-> image,
                                  fn |-> "shrink", ok |-> Decodes(f)])
           /\ IF Decodes(f)
              THEN /\ pending' = ResizeOf(image, shrink_dimensions(f.w, f.h, opt.size))
                   /\ pc' = "write"
                   /\ UNCHANGED idx
              ELSE /\ pc' = "loop"
                   /\ idx' = idx + 1
                   /\ UNCHANGED pending
    /\ UNCHANGED <<argv, fs, opt, dimVars>>

\* main's arm Operation::Shrink => shrink(&image, opt.size)? : open and decode
\* the file, ask shrink_dimensions, build the Resize value
Shrink ==
    /\ pc = "loop"
    /\ idx <= Len(opt.images)
    /\ opt.operation = "Shrink"
    /\ LET image == opt.images[idx]
           f     == fs[image]
       IN  /\ log' = Append(log, [ev |-> "read", idx |-> idx, path |-> image,
                                  fn |-> "shrink", ok |-> Decodes(f)])
           /\ IF Decodes(f)
              THEN /\ pending' = ResizeOf(image, shrink_dimensions(f.w, f.h, opt.size))
                   /\ pc' = "write"
              ELSE /\ pc' = "err"
                   /\ UNCHANGED pending
    /\ UNCHANGED <<argv, fs, opt, idx, dimVars>>

\* buffer.write(path): on success the file holds the resized image; on failure
\* the file is as it was (it could not be created) or is left truncated
WriteBuffer(path, buffer, ok) ==
    /\ log' = Append(log, [ev |-> "write", idx |-> idx, path |-> path,
                           fn |-> "write", ok |-> ok])
    /\ IF ok
       THEN fs' = [fs EXCEPT ![path] = Image(buffer[1], buffer[2])]
       ELSE \/ fs' = fs
            \/ fs' = [fs EXCEPT ![path] = Corrupt]

\* Resize::write()? and the next iteration of the loop
Write ==
    /\ pc = "write"
    /\ IF pending = Noop
       THEN /\ pc' = "loop"
            /\ idx' = idx + 1
            /\ UNCHANGED <<fs, log>>
       ELSE \E ok \in BOOLEAN :
                /\ WriteBuffer(pending.path, pending.buffer, ok)
                /\ IF ok
                   THEN pc' = "loop" /\ idx' = idx + 1
                   ELSE pc' = "err" /\ UNCHANGED idx
    /\ pending' = Noop
    /\ UNCHANGED <<argv, opt, dimVars>>

\* the loop is exhausted: Ok(())
MainOk ==
    /\ pc = "loop"
    /\ idx > Len(opt.images)
    /\ pc' = "ok"
    /\ UNCHANGED <<argv, fs, opt, idx, pending, log, dimVars>>

Next == FromArgs \/ Enlarge \/ Shrink \/ Write \/ MainOk

Spec == Init /\ [][Next]_vars

(***************************************************************************)
(* Claims about the dimension calculators, checked under DimSpec.          *)
(***************************************************************************)
Max(a, b) == IF a >= b THEN a ELSE b

Shrunk == calc \in {"shrink", "shrink2"}
Enlarged == calc \in {"enlarge", "enlarge2"}

\* the reference of claim C1: floor of the exact quotient size * other / long
ShrinkReference(w, h, s) ==
    IF w > h /\ w > s THEN Some(s, (s * h) \div w)
    ELSE IF h > s THEN Some((s * w) \div h, s)
    ELSE None

\* C1: shrink_dimensions(width, height, size) equals the reference computed
\* with the floor of the exact quotient, for all positive width, height, size.
C1_ShrinkEqualsExactReference ==
    Shrunk => result = ShrinkReference(width, height, size)

\* C2: enlarge_dimensions returns Some only when the long dimension
\* max(width, height) is strictly less than size.
C2_EnlargeOnlyBelowSize ==
    Enlarged /\ result # None => Max(width, height) < size

\* C3: whenever shrink_dimensions or enlarge_dimensions returns
\* Some((nwidth, nheight)), max(nwidth, nheight) equals size.
C3_LongDimensionIsSize ==
    (Shrunk \/ Enlarged) /\ result # None => Max(result[1], result[2]) = size

\* C4: whenever shrink_dimensions or enlarge_dimensions returns
\* Some((nwidth, nheight)), nwidth >= 1 and nheight >= 1.
C4_NewDimensionsPositive ==
    (Shrunk \/ Enlarged) /\ result # None => result[1] >= 1 /\ result[2] >= 1

\* C5: shrink_dimensions returns None when width <= size and height <= size;
\* enlarge_dimensions returns None when width >= size and height >= size.
C5_NoopWhenWithinSize ==
    /\ Shrunk /\ width <= size /\ height <= size => result = None
    /\ Enlarged /\ width >= size /\ height >= size => result = None

\* C5 witness: both calculators have answered None on such inputs; here shrink
\* on an image that exactly fills the size in its long dimension.
C5_Witness ==
    /\ calc = "shrink"
    /\ width < height
    /\ height = size
    /\ result = None

\* C9: a Some((nwidth, nheight)) of shrink_dimensions has nwidth <= size and
\* nheight <= size, and shrink_dimensions(nwidth, nheight, size) is None.
C9_ShrinkIdempotent ==
    /\ Shrunk /\ result # None => result[1] <= size /\ result[2] <= size
    /\ calc = "shrink2" => again = None

\* C9 witness: a square image shrunk, where the f64 product falls below the
\* exact quotient, and shrunk again without change.
C9_Witness ==
    /\ calc = "shrink2"
    /\ width = 22 /\ height = 22 /\ size = 15
    /\ result = <<14, 15>>
    /\ again = None

\* C10: if enlarge_dimensions(width, height, size) is Some((nwidth, nheight))
\* then enlarge_dimensions(nwidth, nheight, size) is None.
C10_EnlargeIdempotent ==
    calc = "enlarge2" => again = None

(***************************************************************************)
(* Claims about a run of main, checked under Spec.                         *)
(***************************************************************************)
\* the calculator main's operation selects, on a decoded file
CalcOf(f) ==
    IF opt.operation = "Enlarge" THEN enlarge_dimensions(f.w, f.h, opt.size)
    ELSE shrink_dimensions(f.w, f.h, opt.size)

Last(q) == q[Len(q)]

\* C6: processing a decoded image at path p writes p exactly when the
\* calculator returns Some; on None nothing is written; no step changes a
\* file other than p.
C6_WritesOnlyTheResizedFile ==
    [][ /\ \A q \in Paths :
              fs'[q] # fs[q] => pc = "write" /\ q = opt.images[idx]
        /\ pc # "write" =>
              (log' = log \/ (Len(log') = Len(log) + 1 /\ Last(log').ev = "read"))
        /\ pc = "write" =>
              LET p == opt.images[idx]
                  d == CalcOf(fs[p])
              IN  /\ d = None => fs' = fs /\ log' = log
                  /\ d # None =>
                        /\ log' = Append(log, Last(log'))
                        /\ Last(log').ev = "write"
                        /\ Last(log').path = p
                        /\ Last(log').ok => fs'[p] = Image(d[1], d[2])
      ]_vars

\* C6 witness: a finished run that left its first image alone and overwrote
\* its second, at another path.
C6_Witness ==
    /\ pc = "ok"
    /\ Len(log) = 3
    /\ log[1].ev = "read" /\ log[2].ev = "read" /\ log[3].ev = "write"
    /\ log[3].ok
    /\ log[1].path # log[3].path
    /\ fs[log[1].path].kind = "image"

Reads == SelectSeq(log, LAMBDA e : e.ev = "read")

\* C7: images are read in command-line order, each write follows the read of
\* its own image, a failed open, decode or write is the last thing the run
\* does and ends it with an error, and a run without failure handles every
\* image exactly once and ends successfully.
C7_SequentialFailFast ==
    pc \in {"loop", "write", "err", "ok"} =>
        /\ Len(Reads) <= Len(opt.images)
        /\ \A k \in 1..Len(Reads) :
              Reads[k].idx = k /\ Reads[k].path = opt.images[k]
        /\ \A i \in 1..Len(log) :
              log[i].ev = "write" =>
                  /\ i > 1
                  /\ log[i - 1].ev = "read"
                  /\ log[i - 1].idx = log[i].idx
                  /\ log[i - 1].path = log[i].path
        /\ \A i \in 1..Len(log) : ~log[i].ok => i = Len(log) /\ pc = "err"
        /\ pc = "err" => log # <<>> /\ ~Last(log).ok
        /\ pc = "ok" => Len(Reads) = Len(opt.images)

\* C7 witness: the first of two images fails to decode and the run has ended
\* in error with the second never read.
C7_Witness ==
    /\ pc = "err"
    /\ Len(opt.images) = 2
    /\ opt.images[1] # opt.images[2]
    /\ Len(log) = 1
    /\ ~log[1].ok
    /\ fs[opt.images[2]].kind = "image"

\* C8: the operation is Enlarge exactly when -u/--up was given, Shrink when
\* -d/--down or neither flag was given, and every image of the run is handled
\* by that operation.
C8_OperationFromFlags ==
    pc \in {"loop", "write", "err", "ok"} =>
        /\ opt.operation = "Enlarge" <=> argv.up
        /\ argv.down \/ (~argv.up /\ ~argv.down) => opt.operation = "Shrink"
        /\ \A k \in 1..Len(Reads) :
              Reads[k].fn = IF argv.up THEN "enlarge" ELSE "shrink"

\* C8 witness: a run without flags has shrunk two images.
C8_Witness ==
    /\ pc = "ok"
    /\ ~argv.up /\ ~argv.down
    /\ Len(Reads) = 2
    /\ Reads[1].fn = "shrink" /\ Reads[2].fn = "shrink"

=============================================================================
